---- MODULE Spec2Model ----
(***************************************************************************)
(* Model of pcs.lib.corosync.config_facade.ConfigFacade: a facade over a   *)
(* parsed corosync.conf section tree.  A section is a record               *)
(*   [name, attrs, secs]                                                   *)
(* with attrs an ordered sequence of <<name, value>> pairs (duplicates     *)
(* allowed) and secs the ordered sequence of child sections.  Option maps  *)
(* (python dicts) are functions from a set of names to values.             *)
(***************************************************************************)
EXTENDS Integers, Sequences, FiniteSets, TLC

VARIABLES
    config,   \* ConfigFacade._config: the root section of the document
    prev,     \* the document as it was before the last facade call
    last,     \* the last facade call: operation, arguments, outcome, reports
    history   \* the operations called in this edit session, in order

vars == <<config, prev, last, history>>

-----------------------------------------------------------------------------
(* Bounds of the model *)

\* facade calls per edit session
MaxSteps == 2
\* largest number of node sections in an initial document
MaxNodes == 3

-----------------------------------------------------------------------------
(* Values *)

\* python None
None == "<None>"

\* the empty dict
EmptyMap == [n \in {} |-> ""]

\* Option names known to the model, in the order python's sorted() gives.
SortedNames ==
    << "algorithm", "allow_downscale", "auto_tie_breaker", "bogus",
       "connect_timeout", "force_ip_version", "host", "last_man_standing",
       "last_man_standing_window", "model", "port", "sync_timeout",
       "tie_breaker", "timeout", "two_node", "wait_for_all" >>

\* sorted(options.items()) as the sequence of its keys
sorted_keys(options) == SelectSeq(SortedNames, LAMBDA n : n \in DOMAIN options)

\* str.isdigit() and int() on the value strings of the model
DigitStrings ==
    ("0" :> 0) @@ ("1" :> 1) @@ ("2" :> 2) @@ ("3" :> 3) @@ ("4" :> 4)
    @@ ("5" :> 5) @@ ("6" :> 6) @@ ("7" :> 7) @@ ("10" :> 10) @@ ("99" :> 99)
    @@ ("999" :> 999) @@ ("1000" :> 1000) @@ ("5403" :> 5403)
    @@ ("65535" :> 65535) @@ ("65536" :> 65536) @@ ("120000" :> 120000)
    @@ ("120001" :> 120001)

isdigit(value) == value \in DOMAIN DigitStrings

int(value) == DigitStrings[value]

-----------------------------------------------------------------------------
(* config_parser.Section *)

Section(name) == [name |-> name, attrs |-> <<>>, secs |-> <<>>]

get_attributes(section, name) ==
    SelectSeq(section.attrs, LAMBDA a : a[1] = name)

add_attribute(section, name, value) ==
    [section EXCEPT !.attrs = Append(@, <<name, value>>)]

del_attributes_by_name(section, name) ==
    [section EXCEPT !.attrs = SelectSeq(@, LAMBDA a : a[1] # name)]

\* overwrite the first attribute of that name and drop its later duplicates,
\* or append the attribute when the section has none of that name
set_attribute(section, name, value) ==
    LET n    == Len(section.attrs)
        hits == {i \in 1..n : section.attrs[i][1] = name}
    IN  IF hits = {}
        THEN add_attribute(section, name, value)
        ELSE LET first == CHOOSE i \in hits : \A j \in hits : i <= j
             IN  [section EXCEPT !.attrs =
                    SubSeq(@, 1, first - 1)
                    \o << <<name, value>> >>
                    \o SelectSeq(SubSeq(@, first + 1, n),
                                 LAMBDA a : a[1] # name)]

get_sections(section, name) ==
    SelectSeq(section.secs, LAMBDA c : c.name = name)

add_section(parent, section) ==
    [parent EXCEPT !.secs = Append(@, section)]

empty(section) == section.attrs = <<>> /\ section.secs = <<>>

-----------------------------------------------------------------------------
(* References to sections of the tree: a section object held by the facade *)
(* code is the path of child indices leading to it from the root.          *)

RECURSIVE get_at(_, _)
get_at(tree, path) ==
    IF path = <<>> THEN tree
    ELSE get_at(tree.secs[Head(path)], Tail(path))

RECURSIVE put_at(_, _, _)
put_at(tree, path, section) ==
    IF path = <<>> THEN section
    ELSE [tree EXCEPT !.secs[Head(path)] = put_at(@, Tail(path), section)]

RECURSIVE section_paths_from(_, _, _)
\* paths, in document order, of the sections reached from `tree` by
\* get_sections(names[1]), then get_sections(names[2]) on each, and so on;
\* children before index i are skipped
section_paths_from(tree, names, i) ==
    IF names = <<>> THEN IF i = 1 THEN << <<>> >> ELSE <<>>
    ELSE IF i > Len(tree.secs) THEN <<>>
    ELSE LET below == IF tree.secs[i].name = Head(names)
                      THEN section_paths_from(tree.secs[i], Tail(names), 1)
                      ELSE <<>>
             here  == [k \in 1..Len(below) |-> <<i>> \o below[k]]
         IN  here \o section_paths_from(tree, names, i + 1)

section_paths(tree, names) == section_paths_from(tree, names, 1)

sections_at(tree, paths) == [k \in 1..Len(paths) |-> get_at(tree, paths[k])]

RECURSIVE put_all(_, _, _)
put_all(tree, paths, sections) ==
    IF paths = <<>> THEN tree
    ELSE put_all(put_at(tree, Head(paths), Head(sections)),
                 Tail(paths), Tail(sections))

-----------------------------------------------------------------------------
(* Report items and the report processor *)

\* ReportItem.error(code, ..., info, forceable)
ReportItem(code, option, value, forceable) ==
    [code |-> code, option |-> option, value |-> value,
     forceable |-> forceable]

\* report_processor.process_list(report_list) raises when a problem is left
\* that the caller's force policy does not turn into a warning
process_list_raises(report_list, force) ==
    \E i \in DOMAIN report_list : ~report_list[i].forceable \/ ~force

RECURSIVE Flatten(_)
Flatten(seqs) == IF seqs = <<>> THEN <<>> ELSE Head(seqs) \o Flatten(Tail(seqs))

-----------------------------------------------------------------------------
(* ConfigFacade: reads *)

QUORUM_OPTIONS ==
    {"auto_tie_breaker", "last_man_standing", "last_man_standing_window",
     "wait_for_all"}

\* the value a python loop "for name, value in attrs: x = value" leaves in x
last_value(section, name, default) ==
    LET found == get_attributes(section, name)
    IN  IF found = <<>> THEN default ELSE found[Len(found)][2]

NodeAddresses(node) ==
    [ring0 |-> last_value(node, "ring0_addr", None),
     ring1 |-> last_value(node, "ring1_addr", None),
     label |-> last_value(node, "name", None),
     id    |-> last_value(node, "nodeid", None)]

get_nodes(cfg) ==
    LET nodes == sections_at(cfg, section_paths(cfg, <<"nodelist", "node">>))
    IN  [k \in 1..Len(nodes) |-> NodeAddresses(nodes[k])]

\* all attributes of the given sections, in document order
attributes_of(sections) ==
    Flatten([k \in 1..Len(sections) |-> sections[k].attrs])

RECURSIVE dict_update(_, _)
\* dict.update with a sequence of (name, value) pairs: the last pair wins
dict_update(dict, pairs) ==
    IF pairs = <<>> THEN dict
    ELSE dict_update((Head(pairs)[1] :> Head(pairs)[2]) @@ dict, Tail(pairs))

\* as get_quorum_options, with the first occurrence of a name kept
get_quorum_options_of_first(cfg) ==
    LET pairs == SelectSeq(attributes_of(get_sections(cfg, "quorum")),
                           LAMBDA a : a[1] \in QUORUM_OPTIONS)
    IN  dict_update(EmptyMap,
                    [k \in 1..Len(pairs) |-> pairs[Len(pairs) + 1 - k]])

get_quorum_options(cfg) ==
    dict_update(EmptyMap,
        SelectSeq(attributes_of(get_sections(cfg, "quorum")),
                  LAMBDA a : a[1] \in QUORUM_OPTIONS))

has_quorum_device(cfg) ==
    \E p \in { section_paths(cfg, <<"quorum", "device">>)[k] :
                 k \in 1..Len(section_paths(cfg, <<"quorum", "device">>)) } :
        get_attributes(get_at(cfg, p), "model") # <<>>

\* the model the loop of update_quorum_device ends with
current_model(cfg) ==
    LET devices == sections_at(cfg, section_paths(cfg, <<"quorum", "device">>))
        models  == SelectSeq(attributes_of(devices), LAMBDA a : a[1] = "model")
    IN  IF models = <<>> THEN None ELSE models[Len(models)][2]

\* as get_quorum_device_settings, with the model attribute among the generic
\* options
get_quorum_device_settings_keeping_model(cfg) ==
    LET devices  == sections_at(cfg, section_paths(cfg, <<"quorum", "device">>))
        model    == current_model(cfg)
        generic  == dict_update(EmptyMap, attributes_of(devices))
        subs     == Flatten([k \in 1..Len(devices) |-> devices[k].secs])
        ofmodel  == SelectSeq(subs, LAMBDA c : c.name = model)
    IN  [model |-> model,
         model_options |-> dict_update(EmptyMap, attributes_of(ofmodel)),
         generic_options |-> generic]

get_quorum_device_settings(cfg) ==
    LET devices  == sections_at(cfg, section_paths(cfg, <<"quorum", "device">>))
        model    == current_model(cfg)
        generic  == dict_update(EmptyMap,
                        SelectSeq(attributes_of(devices),
                                  LAMBDA a : a[1] # "model"))
        subs     == Flatten([k \in 1..Len(devices) |-> devices[k].secs])
        ofmodel  == SelectSeq(subs, LAMBDA c : c.name = model)
    IN  [model |-> model,
         model_options |-> dict_update(EmptyMap, attributes_of(ofmodel)),
         generic_options |-> generic]

-----------------------------------------------------------------------------
(* ConfigFacade: validation *)

\* as quorum_option_report, with "0" and "1" asked of every option
quorum_option_report_of_flags(name, value) ==
    IF name \notin QUORUM_OPTIONS
    THEN << ReportItem("INVALID_OPTION", name, None, FALSE) >>
    ELSE IF value = "" THEN <<>>
    ELSE IF value \notin {"0", "1"}
         THEN << ReportItem("INVALID_OPTION_VALUE", name, value, FALSE) >>
         ELSE <<>>

quorum_option_report(name, value) ==
    IF name \notin QUORUM_OPTIONS
    THEN << ReportItem("INVALID_OPTION", name, None, FALSE) >>
    ELSE IF value = "" THEN <<>>
    ELSE IF name = "last_man_standing_window"
    THEN IF ~isdigit(value)
         THEN << ReportItem("INVALID_OPTION_VALUE", name, value, FALSE) >>
         ELSE <<>>
    ELSE IF value \notin {"0", "1"}
         THEN << ReportItem("INVALID_OPTION_VALUE", name, value, FALSE) >>
         ELSE <<>>

\* as validate_quorum_options, stopping at the first problem found
validate_quorum_options_failing_fast(options) ==
    LET keys == sorted_keys(options)
        all  == Flatten([k \in 1..Len(keys) |->
                            quorum_option_report(keys[k], options[keys[k]])])
    IN  IF all = <<>> THEN <<>> ELSE << Head(all) >>

validate_quorum_options(options) ==
    LET keys == sorted_keys(options)
    IN  Flatten([k \in 1..Len(keys) |->
                    quorum_option_report(keys[k], options[keys[k]])])

validate_quorum_device_model(model) ==
    IF model \notin {"net"}
    THEN << ReportItem("INVALID_OPTION_VALUE", "model", model, TRUE) >>
    ELSE <<>>

ConnectTimeoutMin == 1000
ConnectTimeoutMax == 120000
PortMin == 1
PortMax == 65535

net_required_options == {"host"}

net_optional_options ==
    {"algorithm", "connect_timeout", "force_ip_version", "port", "tie_breaker"}

\* as net_option_value_report, with connect_timeout below its upper limit
net_option_value_report_below_max(cfg, name, value) ==
    LET bad == << ReportItem("INVALID_OPTION_VALUE", name, value, TRUE) >>
        ids == { get_nodes(cfg)[k].id : k \in 1..Len(get_nodes(cfg)) }
    IN  IF name = "algorithm"
        THEN IF value \notin {"2nodelms", "ffsplit", "lms"} THEN bad ELSE <<>>
        ELSE IF name = "connect_timeout"
        THEN IF ~(isdigit(value) /\ ConnectTimeoutMin <= int(value)
                                 /\ int(value) < ConnectTimeoutMax)
             THEN bad ELSE <<>>
        ELSE IF name = "force_ip_version"
        THEN IF value \notin {"0", "4", "6"} THEN bad ELSE <<>>
        ELSE IF name = "port"
        THEN IF ~(isdigit(value) /\ PortMin <= int(value)
                                 /\ int(value) <= PortMax)
             THEN bad ELSE <<>>
        ELSE IF name = "tie_breaker"
        THEN IF value \notin ({"lowest", "highest"} \cup ids) THEN bad ELSE <<>>
        ELSE <<>>

net_option_value_report(cfg, name, value) ==
    LET bad == << ReportItem("INVALID_OPTION_VALUE", name, value, TRUE) >>
        ids == { get_nodes(cfg)[k].id : k \in 1..Len(get_nodes(cfg)) }
    IN  IF name = "algorithm"
        THEN IF value \notin {"2nodelms", "ffsplit", "lms"} THEN bad ELSE <<>>
        ELSE IF name = "connect_timeout"
        THEN IF ~(isdigit(value) /\ ConnectTimeoutMin <= int(value)
                                 /\ int(value) <= ConnectTimeoutMax)
             THEN bad ELSE <<>>
        ELSE IF name = "force_ip_version"
        THEN IF value \notin {"0", "4", "6"} THEN bad ELSE <<>>
        ELSE IF name = "port"
        THEN IF ~(isdigit(value) /\ PortMin <= int(value)
                                 /\ int(value) <= PortMax)
             THEN bad ELSE <<>>
        ELSE IF name = "tie_breaker"
        THEN IF value \notin ({"lowest", "highest"} \cup ids) THEN bad ELSE <<>>
        ELSE <<>>

\* as net_option_report, with an empty required option forceable
net_option_report_forcing_required(cfg, name, value) ==
    IF name \notin (net_required_options \cup net_optional_options)
    THEN << ReportItem("INVALID_OPTION", name, None, TRUE) >>
    ELSE IF value = "" /\ name \notin net_required_options THEN <<>>
    ELSE (IF value = ""
          THEN << ReportItem("REQUIRED_OPTION_IS_MISSING", name, None, TRUE) >>
          ELSE <<>>)
         \o net_option_value_report(cfg, name, value)

net_option_report(cfg, name, value) ==
    IF name \notin (net_required_options \cup net_optional_options)
    THEN << ReportItem("INVALID_OPTION", name, None, TRUE) >>
    ELSE IF value = "" /\ name \notin net_required_options THEN <<>>
    ELSE (IF value = ""
          THEN << ReportItem("REQUIRED_OPTION_IS_MISSING", name, None, FALSE) >>
          ELSE <<>>)
         \o net_option_value_report(cfg, name, value)

validate_quorum_device_model_net_options(cfg, model_options, need_required) ==
    LET keys    == sorted_keys(model_options)
        missing == SelectSeq(SortedNames,
                       LAMBDA n : n \in net_required_options
                                  /\ n \notin DOMAIN model_options)
    IN  (IF need_required
         THEN [k \in 1..Len(missing) |->
                  ReportItem("REQUIRED_OPTION_IS_MISSING", missing[k], None,
                             FALSE)]
         ELSE <<>>)
        \o Flatten([k \in 1..Len(keys) |->
                      net_option_report(cfg, keys[k], model_options[keys[k]])])

validate_quorum_device_model_options(cfg, model, model_options, need_required) ==
    IF model = "net"
    THEN validate_quorum_device_model_net_options(cfg, model_options,
                                                  need_required)
    ELSE <<>>

generic_option_report(name, value) ==
    IF name \notin {"sync_timeout", "timeout"}
    THEN << ReportItem("INVALID_OPTION", name, None, name # "model") >>
    ELSE IF value = "" THEN <<>>
    ELSE IF ~isdigit(value)
         THEN << ReportItem("INVALID_OPTION_VALUE", name, value, TRUE) >>
         ELSE <<>>

validate_quorum_device_generic_options(generic_options) ==
    LET keys == sorted_keys(generic_options)
    IN  Flatten([k \in 1..Len(keys) |->
                    generic_option_report(keys[k], generic_options[keys[k]])])

-----------------------------------------------------------------------------
(* ConfigFacade: helpers that change the tree *)

RECURSIVE strip_options(_, _)
\* for name in options: section.del_attributes_by_name(name)
strip_options(section, keys) ==
    IF keys = <<>> THEN section
    ELSE strip_options(del_attributes_by_name(section, Head(keys)), Tail(keys))

RECURSIVE write_options_setting_empty(_, _, _)
\* as write_options, with an empty value set like any other value
write_options_setting_empty(section, keys, options) ==
    IF keys = <<>> THEN section
    ELSE write_options_setting_empty(
            set_attribute(section, Head(keys), options[Head(keys)]),
            Tail(keys), options)

RECURSIVE write_options(_, _, _)
\* for name, value in sorted(options.items()): delete or set on the section
write_options(section, keys, options) ==
    IF keys = <<>> THEN section
    ELSE write_options(
            IF options[Head(keys)] = ""
            THEN del_attributes_by_name(section, Head(keys))
            ELSE set_attribute(section, Head(keys), options[Head(keys)]),
            Tail(keys), options)

\* section_list[-1] of an empty list, reached when there is an option to write
set_section_options_raises(section_list, options) ==
    section_list = <<>> /\ DOMAIN options # {}

\* as set_section_options, with the sections before the last left alone
set_section_options_of_last(section_list, options) ==
    LET n    == Len(section_list)
        keys == sorted_keys(options)
    IN  [k \in 1..n |->
            IF k < n THEN section_list[k]
            ELSE write_options(section_list[k], keys, options)]

\* the sections of section_list after __set_section_options
set_section_options(section_list, options) ==
    LET n    == Len(section_list)
        keys == sorted_keys(options)
    IN  [k \in 1..n |->
            IF k < n THEN strip_options(section_list[k], keys)
            ELSE write_options(section_list[k], keys, options)]

\* __set_section_options on the sections of the tree at the given paths
set_options_at(cfg, paths, options) ==
    put_all(cfg, paths, set_section_options(sections_at(cfg, paths), options))

\* the tree after __ensure_section(parent, name) on the root; the list the
\* code gets back is the tree's sections of that name
ensure_section(cfg, section_name) ==
    IF get_sections(cfg, section_name) = <<>>
    THEN add_section(cfg, Section(section_name))
    ELSE cfg

\* as del_device_sections, keeping the device sections that have no model
del_device_sections_with_model(cfg) ==
    LET quorums == section_paths(cfg, <<"quorum">>)
    IN  put_all(cfg, quorums,
            [k \in 1..Len(quorums) |->
                [get_at(cfg, quorums[k]) EXCEPT
                    !.secs = SelectSeq(@, LAMBDA c :
                                c.name # "device"
                                \/ get_attributes(c, "model") = <<>>)]])

\* for quorum in ...: for device in quorum.get_sections("device"):
\*     quorum.del_section(device)
del_device_sections(cfg) ==
    LET quorums == section_paths(cfg, <<"quorum">>)
    IN  put_all(cfg, quorums,
            [k \in 1..Len(quorums) |->
                [get_at(cfg, quorums[k]) EXCEPT
                    !.secs = SelectSeq(@, LAMBDA c : c.name # "device")]])

\* the last auto_tie_breaker attribute of the quorum sections is not "0"
auto_tie_breaker_on(cfg) ==
    LET found == SelectSeq(attributes_of(get_sections(cfg, "quorum")),
                           LAMBDA a : a[1] = "auto_tie_breaker")
    IN  IF found = <<>> THEN FALSE ELSE found[Len(found)][2] # "0"

\* one net section after the algorithm update
update_algorithm(net, has_two_nodes) ==
    LET algorithm == last_value(net, "algorithm", None)
    IN  IF algorithm = "lms" /\ has_two_nodes
        THEN set_attribute(net, "algorithm", "2nodelms")
        ELSE IF algorithm = "2nodelms" /\ ~has_two_nodes
        THEN set_attribute(net, "algorithm", "lms")
        ELSE net

\* as two_node_wanted, with auto_tie_breaker not looked at
two_node_wanted_ignoring_tie_breaker(cfg) ==
    /\ Len(get_nodes(cfg)) = 2
    /\ ~has_quorum_device(cfg)

\* has_two_nodes and not auto_tie_breaker and not has_quorum_device
two_node_wanted(cfg) ==
    /\ Len(get_nodes(cfg)) = 2
    /\ ~auto_tie_breaker_on(cfg)
    /\ ~has_quorum_device(cfg)

update_two_node(cfg) ==
    LET has_two_nodes == Len(get_nodes(cfg)) = 2
        two_node ==
            IF two_node_wanted(cfg)
            THEN LET ensured == ensure_section(cfg, "quorum")
                 IN  set_options_at(ensured, section_paths(ensured, <<"quorum">>),
                                    "two_node" :> "1")
            ELSE LET quorums == section_paths(cfg, <<"quorum">>)
                 IN  put_all(cfg, quorums,
                        [k \in 1..Len(quorums) |->
                            del_attributes_by_name(get_at(cfg, quorums[k]),
                                                   "two_node")])
        nets == section_paths(two_node, <<"quorum", "device", "net">>)
    IN  put_all(two_node, nets,
            [k \in 1..Len(nets) |->
                update_algorithm(get_at(two_node, nets[k]), has_two_nodes)])

\* as remove_empty_sections, without the recursion into the children
remove_empty_sections_of_root(parent_section) ==
    [parent_section EXCEPT !.secs = SelectSeq(@, LAMBDA c : ~empty(c))]

RECURSIVE remove_empty_sections(_)
remove_empty_sections(parent_section) ==
    LET cleaned == [k \in 1..Len(parent_section.secs) |->
                       remove_empty_sections(parent_section.secs[k])]
    IN  [parent_section EXCEPT
            !.secs = SelectSeq(cleaned, LAMBDA c : ~empty(c))]

-----------------------------------------------------------------------------
(* ConfigFacade: writes.  Each gives the tree the call leaves, how the     *)
(* call ended and the report lists it handed to the report processor.      *)

Result(cfg, outcome, reports) ==
    [config |-> cfg, outcome |-> outcome, reports |-> reports]

\* as set_quorum_options, with the quorum section ensured before the options
\* are validated
set_quorum_options_ensuring_first(cfg, force, options) ==
    LET report  == validate_quorum_options(options)
        ensured == ensure_section(cfg, "quorum")
    IN  IF process_list_raises(report, force)
        THEN Result(ensured, "LibraryError", <<report>>)
        ELSE Result(remove_empty_sections(update_two_node(
                        set_options_at(ensured,
                            section_paths(ensured, <<"quorum">>), options))),
                    "ok", <<report>>)

set_quorum_options(cfg, force, options) ==
    LET report == validate_quorum_options(options)
    IN  IF process_list_raises(report, force)
        THEN Result(cfg, "LibraryError", <<report>>)
        ELSE LET ensured == ensure_section(cfg, "quorum")
                 written == set_options_at(ensured,
                                section_paths(ensured, <<"quorum">>), options)
             IN  Result(remove_empty_sections(update_two_node(written)),
                        "ok", <<report>>)

\* as DeviceIncompatibleOptions, without allow_downscale
DeviceIncompatibleOptionsOfQuorumOptions ==
    ("auto_tie_breaker" :> "")
    @@ ("last_man_standing" :> "") @@ ("last_man_standing_window" :> "")
    @@ ("two_node" :> "")

DeviceIncompatibleOptions ==
    ("allow_downscale" :> "") @@ ("auto_tie_breaker" :> "")
    @@ ("last_man_standing" :> "") @@ ("last_man_standing_window" :> "")
    @@ ("two_node" :> "")

\* as new_device_section, with the model attribute left out
new_device_section_without_model(model, generic_options) ==
    set_section_options(<<Section("device")>>, generic_options)[1]

\* the device section add_quorum_device builds, before its model section
new_device_section(model, generic_options) ==
    set_attribute(
        set_section_options(<<Section("device")>>, generic_options)[1],
        "model", model)

\* as new_model_section, with the section named net whatever the model
new_model_section_named_net(model, model_options) ==
    set_section_options(<<Section("net")>>, model_options)[1]

\* the model section add_quorum_device builds
new_model_section(model, model_options) ==
    set_section_options(<<Section(model)>>, model_options)[1]

add_quorum_device(cfg, force, model, model_options, generic_options) ==
    IF has_quorum_device(cfg)
    THEN Result(cfg, "QDEVICE_ALREADY_DEFINED", <<>>)
    ELSE
    LET report ==
            validate_quorum_device_model(model)
            \o validate_quorum_device_model_options(cfg, model, model_options,
                                                    TRUE)
            \o validate_quorum_device_generic_options(generic_options)
    IN  IF process_list_raises(report, force)
        THEN Result(cfg, "LibraryError", <<report>>)
        ELSE
        LET ensured == ensure_section(cfg, "quorum")
            cleared == set_options_at(ensured,
                           section_paths(ensured, <<"quorum">>),
                           DeviceIncompatibleOptions)
            bare    == del_device_sections(cleared)
            quorums == section_paths(bare, <<"quorum">>)
            quorum  == quorums[Len(quorums)]
            new_device == new_device_section(model, generic_options)
            new_model  == new_model_section(model, model_options)
            added   == put_at(bare, quorum,
                           add_section(get_at(bare, quorum),
                                       add_section(new_device, new_model)))
        IN  Result(remove_empty_sections(update_two_node(added)),
                   "ok", <<report>>)

\* as update_defined_quorum_device, with the generic options written to the
\* last device section and left on the others
update_defined_quorum_device_on_last(cfg, force, model_options, generic_options) ==
    LET model  == current_model(cfg)
        report ==
            validate_quorum_device_model_options(cfg, model, model_options,
                                                 FALSE)
            \o validate_quorum_device_generic_options(generic_options)
    IN  IF process_list_raises(report, force)
        THEN Result(cfg, "LibraryError", <<report>>)
        ELSE
        LET device_sections == section_paths(cfg, <<"quorum", "device">>)
            model_sections  == section_paths(cfg, <<"quorum", "device", model>>)
            generic == put_all(cfg, device_sections,
                           set_section_options_of_last(
                               sections_at(cfg, device_sections),
                               generic_options))
        IN  IF set_section_options_raises(model_sections, model_options)
            THEN Result(generic, "IndexError", <<report>>)
            ELSE Result(
                    remove_empty_sections(update_two_node(
                        set_options_at(generic, model_sections,
                                       model_options))),
                    "ok", <<report>>)

\* update_quorum_device once a device is known to be defined
update_defined_quorum_device(cfg, force, model_options, generic_options) ==
    LET model  == current_model(cfg)
        report ==
            validate_quorum_device_model_options(cfg, model, model_options,
                                                 FALSE)
            \o validate_quorum_device_generic_options(generic_options)
    IN  IF process_list_raises(report, force)
        THEN Result(cfg, "LibraryError", <<report>>)
        ELSE
        LET device_sections == section_paths(cfg, <<"quorum", "device">>)
            model_sections  == section_paths(cfg, <<"quorum", "device", model>>)
            generic == set_options_at(cfg, device_sections, generic_options)
        IN  IF set_section_options_raises(model_sections, model_options)
            THEN Result(generic, "IndexError", <<report>>)
            ELSE Result(
                    remove_empty_sections(update_two_node(
                        set_options_at(generic, model_sections,
                                       model_options))),
                    "ok", <<report>>)

\* as update_quorum_device, with the generic options validated before the
\* check that a device is defined
update_quorum_device_validating_first(cfg, force, model_options, generic_options) ==
    LET report == validate_quorum_device_generic_options(generic_options)
    IN  IF process_list_raises(report, force)
        THEN Result(cfg, "LibraryError", <<report>>)
        ELSE IF ~has_quorum_device(cfg)
        THEN Result(cfg, "QDEVICE_NOT_DEFINED", <<report>>)
        ELSE update_defined_quorum_device(cfg, force, model_options,
                                          generic_options)

update_quorum_device(cfg, force, model_options, generic_options) ==
    IF ~has_quorum_device(cfg)
    THEN Result(cfg, "QDEVICE_NOT_DEFINED", <<>>)
    ELSE update_defined_quorum_device(cfg, force, model_options,
                                      generic_options)

remove_quorum_device(cfg) ==
    IF ~has_quorum_device(cfg)
    THEN Result(cfg, "QDEVICE_NOT_DEFINED", <<>>)
    ELSE Result(remove_empty_sections(update_two_node(del_device_sections(cfg))),
                "ok", <<>>)

-----------------------------------------------------------------------------
(* Documents the parser gives: the initial states *)

Sec(name, attrs, secs) == [name |-> name, attrs |-> attrs, secs |-> secs]

NodeIds == <<"1", "2", "3", "4", "5">>
NodeAddrs == <<"rh1", "rh2", "rh3", "rh4", "rh5">>

NodeSection(i) ==
    Sec("node", << <<"ring0_addr", NodeAddrs[i]>>, <<"nodeid", NodeIds[i]>> >>,
        <<>>)

\* nodelist { node {..} ... } with nodes i..j
NodeList(i, j) == Sec("nodelist", <<>>, [k \in 1..(j - i + 1) |-> NodeSection(i + k - 1)])

\* the same with a further node section that has no attributes: node { }
NodeListWithEmptyNode(i, j) ==
    [NodeList(i, j) EXCEPT !.secs = Append(@, Section("node"))]

Totem == Sec("totem", << <<"version", "2">> >>, <<>>)

\* logging { logger_subsys { } }
EmptyLogging == Sec("logging", <<>>, << Section("logger_subsys") >>)

\* the sections of a document other than quorum
NodeListChoices ==
    { << Totem >> }
    \cup { << Totem, NodeList(1, n) >> : n \in 2..MaxNodes }
    \cup { << Totem, NodeListWithEmptyNode(1, n - 1), EmptyLogging >> :
             n \in 2..MaxNodes }
    \cup { << Totem, NodeList(1, 1), NodeList(2, 2) >> }

NetSection(attrs) == Sec("net", attrs, <<>>)

Device(attrs, secs) == Sec("device", attrs, secs)

Quorum(attrs, secs) == Sec("quorum", attrs, secs)

\* the quorum sections of a document
QuorumChoices ==
    { <<>>,
      << Quorum(<< <<"auto_tie_breaker", "1">> >>, <<>>) >>,
      << Quorum(<< <<"auto_tie_breaker", "0">>, <<"two_node", "1">> >>, <<>>) >>,
      << Quorum(<< <<"wait_for_all", "1">>, <<"last_man_standing", "1">> >>, <<>>),
         Quorum(<< <<"wait_for_all", "0">>, <<"two_node", "1">> >>, <<>>) >>,
      << Quorum(<< <<"two_node", "1">>, <<"allow_downscale", "1">> >>, <<>>),
         Section("quorum") >>,
      << Quorum(<< <<"provider", "corosync_votequorum">> >>,
           << Device(<< <<"model", "net">>, <<"timeout", "5">> >>,
                << NetSection(<< <<"host", "qnetd">>,
                                 <<"algorithm", "lms">> >>) >>) >>) >>,
      << Quorum(<<>>,
           << Device(<< <<"model", "net">> >>,
                << NetSection(<< <<"host", "qnetd">>,
                                 <<"algorithm", "2nodelms">> >>) >>) >>) >>,
      << Quorum(<< <<"auto_tie_breaker", "1">> >>,
           << Device(<< <<"model", "net">> >>,
                << NetSection(<< <<"algorithm", "ffsplit">>,
                                 <<"host", "qnetd">> >>) >>) >>) >>,
      << Quorum(<<>>, << Device(<< <<"model", "net">> >>, <<>>) >>) >>,
      << Quorum(<< <<"wait_for_all", "1">> >>,
           << Device(<< <<"timeout", "5">> >>, <<>>) >>) >>,
      << Quorum(<<>>, << Device(<< <<"model", "">> >>, <<>>) >>) >>,
      << Quorum(<<>>,
           << Device(<< <<"model", "net">>, <<"timeout", "1">> >>,
                << NetSection(<< <<"host", "qnetd">>,
                                 <<"algorithm", "lms">> >>) >>) >>),
         Quorum(<<>>,
           << Device(<< <<"timeout", "2">>, <<"model", "net">> >>,
                << NetSection(<< <<"host", "other">> >>),
                   NetSection(<< <<"algorithm", "2nodelms">>,
                                 <<"algorithm", "ffsplit">> >>) >>),
              Device(<< <<"votes", "1">> >>, <<>>) >>) >>
    }

Documents ==
    { Sec("", <<>>, rest \o quorums) :
        rest \in NodeListChoices, quorums \in QuorumChoices }

-----------------------------------------------------------------------------
(* Arguments of the facade calls *)

\* Every call is tried with and without the force policy when its arguments
\* can raise a problem, and without it when they are valid on every document.
Forced(inputs) == { <<force, input>> : force \in BOOLEAN, input \in inputs }

Unforced(inputs) == { <<FALSE, input>> : input \in inputs }

QuorumOptionInputs ==
    Unforced({ EmptyMap,
               "auto_tie_breaker" :> "1",
               "auto_tie_breaker" :> "0",
               ("wait_for_all" :> "") @@ ("auto_tie_breaker" :> ""),
               "wait_for_all" :> "1",
               ("last_man_standing" :> "1")
                   @@ ("last_man_standing_window" :> "10") })
    \cup
    Forced({ "auto_tie_breaker" :> "2",
             ("last_man_standing_window" :> "x") @@ ("wait_for_all" :> "1"),
             "bogus" :> "1" })

Host == "host" :> "qnetd"

\* <<model, model_options, generic_options>>
AddInputs ==
    Unforced({
        <<"net", Host, EmptyMap>>,
        <<"net", Host @@ ("algorithm" :> "lms"), "timeout" :> "5">>,
        <<"net", Host @@ ("algorithm" :> "ffsplit") @@ ("port" :> "5403")
                   @@ ("connect_timeout" :> "1000")
                   @@ ("force_ip_version" :> "4"),
                 ("sync_timeout" :> "7") @@ ("timeout" :> "")>> })
    \cup
    Forced({
        <<"net", EmptyMap, EmptyMap>>,
        <<"net", "host" :> "", EmptyMap>>,
        <<"net", Host @@ ("algorithm" :> "2nodelms") @@ ("tie_breaker" :> "1"),
                 EmptyMap>>,
        <<"net", Host @@ ("algorithm" :> "bad"), "timeout" :> "x">>,
        <<"net", Host @@ ("tie_breaker" :> "99"), EmptyMap>>,
        <<"net", Host @@ ("port" :> "65536") @@ ("connect_timeout" :> "999")
                   @@ ("force_ip_version" :> "5"), EmptyMap>>,
        <<"net", Host @@ ("bogus" :> "1"), EmptyMap>>,
        <<"net", Host, "model" :> "net">>,
        <<"net", Host, "bogus" :> "1">>,
        <<"disk", Host @@ ("bogus" :> "1"), "timeout" :> "5">>,
        <<"disk", EmptyMap, EmptyMap>> })

\* <<model_options, generic_options>>
UpdateInputs ==
    Unforced({
        <<EmptyMap, EmptyMap>>,
        <<"host" :> "other", EmptyMap>>,
        <<"algorithm" :> "lms", "timeout" :> "5">>,
        <<"algorithm" :> "2nodelms", EmptyMap>>,
        <<("algorithm" :> "") @@ ("port" :> "5403"), "timeout" :> "">> })
    \cup
    Forced({
        <<"host" :> "", EmptyMap>>,
        <<"algorithm" :> "bad", "timeout" :> "x">>,
        <<"tie_breaker" :> "2", EmptyMap>>,
        <<"tie_breaker" :> "99", "sync_timeout" :> "7">>,
        <<"bogus" :> "1", EmptyMap>>,
        <<EmptyMap, "model" :> "">>,
        <<EmptyMap, "bogus" :> "1">> })

-----------------------------------------------------------------------------
(* The facade as a state machine *)

Call(op, force, model, model_options, generic_options, options, result) ==
    [op |-> op, force |-> force, model |-> model,
     model_options |-> model_options, generic_options |-> generic_options,
     options |-> options, outcome |-> result.outcome,
     reports |-> result.reports]

NoCall ==
    [op |-> "from_string", force |-> FALSE, model |-> None,
     model_options |-> EmptyMap, generic_options |-> EmptyMap,
     options |-> EmptyMap, outcome |-> "ok", reports |-> <<>>]

Init ==
    /\ config \in Documents
    /\ prev = config
    /\ last = NoCall
    /\ history = <<>>

Reads ==
    {"get_nodes", "get_quorum_options", "has_quorum_device",
     "get_quorum_device_settings"}

\* the calls of the session that were writes
WritesIn(calls) == SelectSeq(calls, LAMBDA op : op \notin Reads)

\* the calls of the session that were reads
ReadsIn(calls) == SelectSeq(calls, LAMBDA op : op \in Reads)

\* A call that raises aborts the command that made it, so an edit session
\* goes on only after a call that returned.
Running == Len(WritesIn(history)) < MaxSteps /\ last.outcome = "ok"

Done(result, call) ==
    /\ config' = result.config
    /\ prev' = config
    /\ last' = call
    /\ history' = Append(history, call.op)

SetQuorumOptions ==
    /\ Running
    /\ \E call \in QuorumOptionInputs :
         \E result \in {set_quorum_options(config, call[1], call[2])} :
            Done(result, Call("set_quorum_options", call[1], None, EmptyMap,
                              EmptyMap, call[2], result))

AddQuorumDevice ==
    /\ Running
    /\ \E call \in AddInputs :
         \E result \in {add_quorum_device(config, call[1], call[2][1],
                                          call[2][2], call[2][3])} :
            Done(result, Call("add_quorum_device", call[1], call[2][1],
                              call[2][2], call[2][3], EmptyMap, result))

UpdateQuorumDevice ==
    /\ Running
    /\ \E call \in UpdateInputs :
         \E result \in {update_quorum_device(config, call[1], call[2][1],
                                             call[2][2])} :
            Done(result, Call("update_quorum_device", call[1], None,
                              call[2][1], call[2][2], EmptyMap, result))

RemoveQuorumDevice ==
    /\ Running
    /\ \E result \in {remove_quorum_device(config)} :
          Done(result, Call("remove_quorum_device", FALSE, None, EmptyMap,
                            EmptyMap, EmptyMap, result))

Next ==
    \/ SetQuorumOptions
    \/ AddQuorumDevice
    \/ UpdateQuorumDevice
    \/ RemoveQuorumDevice

Spec == Init /\ [][Next]_vars

-----------------------------------------------------------------------------
(* One call with arguments from the whole grammar: every option name, with *)
(* values on and beside each boundary the validation draws.                *)

QuorumOptionValues == {"", "0", "1", "2", "10", "x"}

SetQuorumOptionsArguments ==
    { EmptyMap }
    \cup { name :> value :
             name \in QUORUM_OPTIONS \cup {"bogus"},
             value \in QuorumOptionValues }
    \cup { ("auto_tie_breaker" :> v) @@ ("last_man_standing_window" :> w) :
             v \in QuorumOptionValues, w \in QuorumOptionValues }

\* one net option, or none
NetOptionChoices ==
    { EmptyMap }
    \cup { "algorithm" :> v : v \in {"", "2nodelms", "ffsplit", "lms", "bad"} }
    \cup { "connect_timeout" :> v :
             v \in {"", "999", "1000", "120000", "120001", "x"} }
    \cup { "force_ip_version" :> v : v \in {"", "0", "4", "6", "5"} }
    \cup { "port" :> v : v \in {"", "0", "1", "65535", "65536", "x"} }
    \cup { "tie_breaker" :> v :
             v \in {"", "lowest", "highest", "1", "3", "99"} }
    \cup { "bogus" :> v : v \in {"", "1"} }

\* host absent, given or given empty, with at most one further option
ModelOptionsArguments ==
    { host @@ option :
        host \in {EmptyMap, Host, "host" :> ""}, option \in NetOptionChoices }

GenericOptionsArguments ==
    { EmptyMap }
    \cup { name :> value :
             name \in {"sync_timeout", "timeout"}, value \in {"", "5", "x"} }
    \cup { "model" :> "net", "model" :> "", "bogus" :> "1",
           ("sync_timeout" :> "7") @@ ("timeout" :> "x") }

\* <<model, model_options, generic_options>>
AddQuorumDeviceArguments ==
    { <<model, model_options, EmptyMap>> :
        model \in {"net", "disk"}, model_options \in ModelOptionsArguments }
    \cup { <<"", model_options, EmptyMap>> : model_options \in {EmptyMap, Host} }
    \cup { <<"net", Host, generic_options>> :
             generic_options \in GenericOptionsArguments }
    \cup { <<model, model_options, generic_options>> :
             model \in {"net", "disk"},
             model_options \in {EmptyMap, Host @@ ("algorithm" :> "bad"),
                                Host @@ ("bogus" :> "1")},
             generic_options \in {"timeout" :> "x", "bogus" :> "1"} }
    \cup { <<"net",
              Host @@ ("algorithm" :> algorithm) @@ ("port" :> ""),
              ("sync_timeout" :> "5") @@ ("timeout" :> "")>> :
             algorithm \in {"lms", "2nodelms"} }

\* <<model_options, generic_options>>
UpdateQuorumDeviceArguments ==
    { <<model_options, EmptyMap>> : model_options \in ModelOptionsArguments }
    \cup { <<EmptyMap, generic_options>> :
             generic_options \in GenericOptionsArguments }
    \cup { <<model_options, generic_options>> :
             model_options \in {"host" :> "", "algorithm" :> "bad",
                                "bogus" :> "1"},
             generic_options \in {"timeout" :> "x", "bogus" :> "1"} }

\* the first call on a parsed document
FirstCall == history = <<>>

SetQuorumOptionsOnce ==
    /\ FirstCall
    /\ \E call \in Forced(SetQuorumOptionsArguments) :
         \E result \in {set_quorum_options(config, call[1], call[2])} :
            Done(result, Call("set_quorum_options", call[1], None, EmptyMap,
                              EmptyMap, call[2], result))

AddQuorumDeviceOnce ==
    /\ FirstCall
    /\ \E call \in Forced(AddQuorumDeviceArguments) :
         \E result \in {add_quorum_device(config, call[1], call[2][1],
                                          call[2][2], call[2][3])} :
            Done(result, Call("add_quorum_device", call[1], call[2][1],
                              call[2][2], call[2][3], EmptyMap, result))

UpdateQuorumDeviceOnce ==
    /\ FirstCall
    /\ \E call \in Forced(UpdateQuorumDeviceArguments) :
         \E result \in {update_quorum_device(config, call[1], call[2][1],
                                             call[2][2])} :
            Done(result, Call("update_quorum_device", call[1], None,
                              call[2][1], call[2][2], EmptyMap, result))

NextOnce ==
    \/ SetQuorumOptionsOnce
    \/ AddQuorumDeviceOnce
    \/ UpdateQuorumDeviceOnce

SpecOnce == Init /\ [][NextOnce]_vars

-----------------------------------------------------------------------------
(* Edit sessions with reads between the writes *)

\* most reads of a session
MaxReads == 1

\* a lookup dict[key] raises KeyError for a key the dict does not have;
\* dict.get(key, default) gives the default
dict_lookup_raises(dict, key, default_given) ==
    ~default_given /\ key \notin DOMAIN dict

\* what a read leaves: the tree, how the call ended, the value it returned
ReadResult(cfg, outcome, value) ==
    [config |-> cfg, outcome |-> outcome, value |-> value]

\* get_nodes: every key it looks up in node_data is set to None first, and
\* no statement assigns to the tree
get_nodes_call(cfg) ==
    LET node_data == [name \in {"ring0_addr", "ring1_addr", "name", "nodeid"}
                        |-> None]
    IN  IF \E name \in {"ring0_addr", "ring1_addr", "name", "nodeid"} :
              dict_lookup_raises(node_data, name, FALSE)
        THEN ReadResult(cfg, "KeyError", None)
        ELSE ReadResult(cfg, "ok", get_nodes(cfg))

\* get_quorum_options: options[name] is only assigned to
get_quorum_options_call(cfg) ==
    ReadResult(cfg, "ok", get_quorum_options(cfg))

\* has_quorum_device: a test of get_attributes("model") of the device sections
has_quorum_device_call(cfg) ==
    ReadResult(cfg, "ok", has_quorum_device(cfg))

\* the attributes of the sections below the device sections, by the name of
\* the section: model_options of get_quorum_device_settings
device_model_options(cfg) ==
    LET devices == sections_at(cfg, section_paths(cfg, <<"quorum", "device">>))
        subs    == Flatten([k \in 1..Len(devices) |-> devices[k].secs])
    IN  [name \in { subs[k].name : k \in 1..Len(subs) } |->
            dict_update(EmptyMap,
                attributes_of(SelectSeq(subs, LAMBDA c : c.name = name)))]

\* as get_quorum_device_settings_call, with model_options[model] for
\* model_options.get(model, {})
get_quorum_device_settings_call_indexing(cfg) ==
    LET model         == current_model(cfg)
        model_options == device_model_options(cfg)
    IN  IF dict_lookup_raises(model_options, model, FALSE)
        THEN ReadResult(cfg, "KeyError", None)
        ELSE ReadResult(cfg, "ok",
                 [model |-> model,
                  model_options |->
                      IF model \in DOMAIN model_options
                      THEN model_options[model] ELSE EmptyMap,
                  generic_options |->
                      get_quorum_device_settings(cfg).generic_options])

\* get_quorum_device_settings: model_options[subsection.name] is set to {}
\* before it is updated, and the model is looked up with a default
get_quorum_device_settings_call(cfg) ==
    LET model         == current_model(cfg)
        model_options == device_model_options(cfg)
    IN  IF dict_lookup_raises(model_options, model, TRUE)
        THEN ReadResult(cfg, "KeyError", None)
        ELSE ReadResult(cfg, "ok",
                 [model |-> model,
                  model_options |->
                      IF model \in DOMAIN model_options
                      THEN model_options[model] ELSE EmptyMap,
                  generic_options |->
                      get_quorum_device_settings(cfg).generic_options])

ReadCall(op, result) ==
    [op |-> op, force |-> FALSE, model |-> None,
     model_options |-> EmptyMap, generic_options |-> EmptyMap,
     options |-> EmptyMap, outcome |-> result.outcome, reports |-> <<>>,
     value |-> result.value]

\* a read is made while the session goes on
Reading == Running /\ Len(ReadsIn(history)) < MaxReads

GetNodes ==
    /\ Reading
    /\ \E result \in {get_nodes_call(config)} :
          Done(result, ReadCall("get_nodes", result))

GetQuorumOptions ==
    /\ Reading
    /\ \E result \in {get_quorum_options_call(config)} :
          Done(result, ReadCall("get_quorum_options", result))

HasQuorumDevice ==
    /\ Reading
    /\ \E result \in {has_quorum_device_call(config)} :
          Done(result, ReadCall("has_quorum_device", result))

GetQuorumDeviceSettings ==
    /\ Reading
    /\ \E result \in {get_quorum_device_settings_call(config)} :
          Done(result, ReadCall("get_quorum_device_settings", result))

NextWithReads ==
    \/ Next
    \/ GetNodes
    \/ GetQuorumOptions
    \/ HasQuorumDevice
    \/ GetQuorumDeviceSettings

SpecWithReads == Init /\ [][NextWithReads]_vars

-----------------------------------------------------------------------------
(* from_string: the text parser and the facade's report of its failures.   *)
(* A text is a sequence of lines; a line opens a section, closes one, is   *)
(* an attribute, is skipped (blank or comment) or is malformed.            *)

\* most lines of a text
MaxLines == 4

OpenLine(name) == [kind |-> "open", name |-> name, value |-> ""]
CloseLine == [kind |-> "close", name |-> "", value |-> ""]
AttributeLine(name, value) == [kind |-> "attribute", name |-> name, value |-> value]
SkippedLine == [kind |-> "skipped", name |-> "", value |-> ""]
MalformedLine == [kind |-> "malformed", name |-> "", value |-> ""]

Lines ==
    { OpenLine("quorum"), CloseLine, AttributeLine("two_node", "1"),
      SkippedLine, MalformedLine }

Texts == UNION { [1..n -> Lines] : n \in 0..MaxLines }

\* stands where there is no tree: the parser raised, no facade was made
NoTree == [name |-> None, attrs |-> <<>>, secs |-> <<>>]

\* what parse_string gives: a tree, or the exception it raised
Parsed(tree) == [raised |-> None, tree |-> tree]
ParserRaised(exception) == [raised |-> exception, tree |-> NoTree]

RECURSIVE parse_lines(_, _)
\* open is the sequence of the sections the lines read so far have opened
\* and not closed, the root first
parse_lines(lines, open) ==
    IF lines = <<>>
    THEN IF Len(open) > 1
         THEN ParserRaised("MissingClosingBraceException")
         ELSE Parsed(open[1])
    ELSE LET line   == Head(lines)
             depth  == Len(open)
         IN  IF line.kind = "open"
             THEN parse_lines(Tail(lines), Append(open, Section(line.name)))
             ELSE IF line.kind = "close"
             THEN IF depth = 1
                  THEN ParserRaised("UnexpectedClosingBraceException")
                  ELSE parse_lines(Tail(lines),
                          [SubSeq(open, 1, depth - 1) EXCEPT ![depth - 1] =
                              add_section(@, open[depth])])
             ELSE IF line.kind = "attribute"
             THEN parse_lines(Tail(lines),
                     [open EXCEPT ![depth] =
                         add_attribute(@, line.name, line.value)])
             ELSE IF line.kind = "skipped"
             THEN parse_lines(Tail(lines), open)
             ELSE ParserRaised("CorosyncConfParserException")

parse_string(text) == parse_lines(text, << Section("") >>)

\* the exceptions an except clause for the class catches: the two specific
\* exceptions are parser exceptions too
Catches(class, exception) ==
    \/ exception = class
    \/ class = "CorosyncConfParserException" /\ exception # None

\* as from_string, with the except clause for the parser's exceptions first
from_string_catching_all_first(text) ==
    LET parsed == parse_string(text)
    IN  IF parsed.raised = None
        THEN Result(parsed.tree, "ok", <<>>)
        ELSE IF Catches("CorosyncConfParserException", parsed.raised)
        THEN Result(NoTree, "PARSE_ERROR_COROSYNC_CONF", <<>>)
        ELSE IF Catches("MissingClosingBraceException", parsed.raised)
        THEN Result(NoTree, "PARSE_ERROR_COROSYNC_CONF_MISSING_CLOSING_BRACE",
                    <<>>)
        ELSE Result(NoTree, "PARSE_ERROR_COROSYNC_CONF_UNEXPECTED_CLOSING_BRACE",
                    <<>>)

\* the facade over the parsed tree, or the LibraryError raised and no facade
from_string(text) ==
    LET parsed == parse_string(text)
    IN  IF parsed.raised = None
        THEN Result(parsed.tree, "ok", <<>>)
        ELSE IF Catches("MissingClosingBraceException", parsed.raised)
        THEN Result(NoTree, "PARSE_ERROR_COROSYNC_CONF_MISSING_CLOSING_BRACE",
                    <<>>)
        ELSE IF Catches("UnexpectedClosingBraceException", parsed.raised)
        THEN Result(NoTree, "PARSE_ERROR_COROSYNC_CONF_UNEXPECTED_CLOSING_BRACE",
                    <<>>)
        ELSE IF Catches("CorosyncConfParserException", parsed.raised)
        THEN Result(NoTree, "PARSE_ERROR_COROSYNC_CONF", <<>>)
        ELSE Result(NoTree, parsed.raised, <<>>)

\* before from_string there is no facade
NoFacade ==
    [op |-> "none", force |-> FALSE, model |-> None,
     model_options |-> EmptyMap, generic_options |-> EmptyMap,
     options |-> EmptyMap, outcome |-> "ok", reports |-> <<>>]

FromStringCall(text, result) ==
    [op |-> "from_string", force |-> FALSE, model |-> None,
     model_options |-> EmptyMap, generic_options |-> EmptyMap,
     options |-> EmptyMap, outcome |-> result.outcome, reports |-> <<>>,
     text |-> text]

InitParse ==
    /\ config = NoTree
    /\ prev = NoTree
    /\ last = NoFacade
    /\ history = <<>>

FromString ==
    /\ last = NoFacade
    /\ \E text \in Texts :
         \E result \in {from_string(text)} :
            Done(result, FromStringCall(text, result))

NextParse == FromString

SpecParse == InitParse /\ [][NextParse]_vars

-----------------------------------------------------------------------------
(* Properties: what they speak of *)

Writes ==
    {"set_quorum_options", "add_quorum_device", "update_quorum_device",
     "remove_quorum_device"}

\* the last call was a write that returned
Succeeded == last.op \in Writes /\ last.outcome = "ok"

Range(seq) == { seq[i] : i \in DOMAIN seq }

Children(section, name) == SelectSeq(section.secs, LAMBDA c : c.name = name)

HasAttribute(section, name) ==
    \E i \in DOMAIN section.attrs : section.attrs[i][1] = name

QuorumSections(cfg) == Children(cfg, "quorum")

\* the device sections of all quorum sections, in document order
DeviceSections(cfg) ==
    Flatten([k \in 1..Len(QuorumSections(cfg)) |->
                Children(QuorumSections(cfg)[k], "device")])

\* what hasQuorumDevice() answers: a device section has a model attribute
DeviceDefined(cfg) ==
    \E device \in Range(DeviceSections(cfg)) : HasAttribute(device, "model")

\* the node sections of all nodelist sections, in document order
NodeSections(cfg) ==
    Flatten([k \in 1..Len(Children(cfg, "nodelist")) |->
                Children(Children(cfg, "nodelist")[k], "node")])

NodeCount(cfg) == Len(NodeSections(cfg))

-----------------------------------------------------------------------------
(* Properties *)

\* C1: when the report processor raises in set_quorum_options,
\* add_quorum_device or update_quorum_device, the tree after the call is the
\* tree before the call.
C1_RaiseLeavesTreeUnchanged ==
    (last.op \in Writes /\ last.outcome = "LibraryError") => config = prev

\* C1 happens: a rejected set_quorum_options on a document with no quorum
\* section, which a call that returns would have created.
C1_Witness ==
    /\ last.op = "set_quorum_options"
    /\ last.outcome = "LibraryError"
    /\ QuorumSections(prev) = <<>>
    /\ config = prev

\* C2: add_quorum_device on a document with a device fails with "already
\* defined", update_quorum_device and remove_quorum_device on a document
\* without one fail with "not defined"; in each case the report processor is
\* not consulted and the tree is unchanged, whatever the options and the
\* force policy.
C2_PreconditionFailures ==
    /\ (last.op = "add_quorum_device" /\ DeviceDefined(prev))
         => /\ last.outcome = "QDEVICE_ALREADY_DEFINED"
            /\ last.reports = <<>>
            /\ config = prev
    /\ (last.op \in {"update_quorum_device", "remove_quorum_device"}
        /\ ~DeviceDefined(prev))
         => /\ last.outcome = "QDEVICE_NOT_DEFINED"
            /\ last.reports = <<>>
            /\ config = prev

\* C2 happens: a forced update_quorum_device with an option that validation
\* would reject, on a document without a device.
C2_Witness ==
    /\ last.op = "update_quorum_device"
    /\ last.force
    /\ last.generic_options = ("model" :> "")
    /\ ~DeviceDefined(prev)
    /\ last.outcome = "QDEVICE_NOT_DEFINED"

\* C3: after an add_quorum_device that returned, a device is defined; a
\* defined device stays defined through every call but a remove_quorum_device
\* that returns, so every further add_quorum_device fails with "already
\* defined"; and add_quorum_device with model net, host given and no generic
\* options returns on a document without a device.
C3_DeviceStaysDefined ==
    /\ (last.op = "add_quorum_device" /\ last.outcome = "ok")
         => DeviceDefined(config)
    /\ (DeviceDefined(prev) /\ last.op \in Writes
        /\ ~(last.op = "remove_quorum_device" /\ last.outcome = "ok"))
         => DeviceDefined(config)
    /\ (DeviceDefined(prev) /\ last.op = "add_quorum_device")
         => last.outcome = "QDEVICE_ALREADY_DEFINED"
    /\ (~DeviceDefined(prev) /\ last.op = "add_quorum_device"
        /\ last.model = "net" /\ last.model_options = Host
        /\ last.generic_options = EmptyMap)
         => last.outcome = "ok"

\* C3 happens: a second add_quorum_device, after one that was forced to take
\* an unsupported model.
C3_Witness ==
    /\ history = <<"add_quorum_device", "add_quorum_device">>
    /\ \E device \in Range(DeviceSections(prev)) :
          \E i \in DOMAIN device.attrs : device.attrs[i] = <<"model", "disk">>
    /\ last.outcome = "QDEVICE_ALREADY_DEFINED"

\* C4: after a remove_quorum_device that returned, no quorum section has a
\* device child and no device is defined; remove_quorum_device on a document
\* without a device fails with "not defined", as does the second of two
\* remove_quorum_device calls in a row.
C4_RemoveDeletesEveryDevice ==
    /\ (last.op = "remove_quorum_device" /\ last.outcome = "ok")
         => DeviceSections(config) = <<>> /\ ~DeviceDefined(config)
    /\ (last.op = "remove_quorum_device" /\ ~DeviceDefined(prev))
         => last.outcome = "QDEVICE_NOT_DEFINED" /\ config = prev
    /\ (Len(history) >= 2
        /\ history[Len(history)] = "remove_quorum_device"
        /\ history[Len(history) - 1] = "remove_quorum_device")
         => last.outcome = "QDEVICE_NOT_DEFINED"

\* C4 happens: a remove_quorum_device that returned on a document that had a
\* device section without a model beside the defined device.
C4_Witness ==
    /\ last.op = "remove_quorum_device"
    /\ last.outcome = "ok"
    /\ \E device \in Range(DeviceSections(prev)) :
          ~HasAttribute(device, "model")
    /\ DeviceSections(config) = <<>>

-----------------------------------------------------------------------------
(* Properties of the derived settings *)

\* the value of the last attribute of that name in the section, or None
AttributeValue(section, name) ==
    LET found == SelectSeq(section.attrs, LAMBDA a : a[1] = name)
    IN  IF found = <<>> THEN None ELSE found[Len(found)][2]

LastQuorumSection(cfg) == QuorumSections(cfg)[Len(QuorumSections(cfg))]

NoTwoNode(cfg) ==
    \A quorum \in Range(QuorumSections(cfg)) : ~HasAttribute(quorum, "two_node")

\* the value of the last auto_tie_breaker attribute of the quorum sections
AutoTieBreaker(cfg) ==
    LET found == SelectSeq(
                    Flatten([k \in 1..Len(QuorumSections(cfg)) |->
                                QuorumSections(cfg)[k].attrs]),
                    LAMBDA a : a[1] = "auto_tie_breaker")
    IN  IF found = <<>> THEN None ELSE found[Len(found)][2]

\* the net sections of all device sections, in document order
NetSections(cfg) ==
    Flatten([k \in 1..Len(DeviceSections(cfg)) |->
                Children(DeviceSections(cfg)[k], "net")])

\* C5: after a write that returned, a document with exactly 2 nodes, no
\* device and no auto_tie_breaker has two_node = 1 on its last quorum section
\* and two_node on no other quorum section.
C5_TwoNodeSetForTwoNodes ==
    (Succeeded /\ NodeCount(config) = 2 /\ ~DeviceDefined(config)
     /\ AutoTieBreaker(config) = None)
      => /\ QuorumSections(config) # <<>>
         /\ AttributeValue(LastQuorumSection(config), "two_node") = "1"
         /\ \A k \in 1..(Len(QuorumSections(config)) - 1) :
               ~HasAttribute(QuorumSections(config)[k], "two_node")

\* C6: after a write that returned, a document whose node count is not 2 has
\* two_node on no quorum section.
C6_NoTwoNodeForOtherCounts ==
    (Succeeded /\ NodeCount(config) # 2) => NoTwoNode(config)

\* C7: after a write that returned, a document with a device, or whose last
\* auto_tie_breaker attribute is not "0", has two_node on no quorum section.
C7_NoTwoNodeWithDeviceOrTieBreaker ==
    (Succeeded
     /\ (DeviceDefined(config) \/ AutoTieBreaker(config) \notin {None, "0"}))
      => NoTwoNode(config)

\* C7 happens: quorum { auto_tie_breaker: 1 }, two nodes, no device and
\* set_quorum_options with no options.
C7_Witness ==
    /\ last.op = "set_quorum_options"
    /\ last.outcome = "ok"
    /\ last.options = EmptyMap
    /\ NodeCount(prev) = 2
    /\ NodeCount(config) = 2
    /\ ~DeviceDefined(config)
    /\ AutoTieBreaker(config) = "1"

\* the algorithm values, in document order, of the net sections whose
\* algorithm is neither lms nor 2nodelms
OtherAlgorithms(cfg) ==
    SelectSeq([k \in 1..Len(NetSections(cfg)) |->
                  AttributeValue(NetSections(cfg)[k], "algorithm")],
              LAMBDA v : v \notin {None, "lms", "2nodelms"})

\* C8: after a write that returned, no net section of a device has algorithm
\* lms when the document has 2 nodes, nor 2nodelms when it has another
\* number of nodes; the other algorithm values are left as they were (seen
\* on the writes that set no device option).
C8_AlgorithmFollowsNodeCount ==
    Succeeded
      => /\ \A net \in Range(NetSections(config)) :
               /\ NodeCount(config) = 2
                    => AttributeValue(net, "algorithm") # "lms"
               /\ NodeCount(config) # 2
                    => AttributeValue(net, "algorithm") # "2nodelms"
         /\ last.op = "set_quorum_options"
              => OtherAlgorithms(config) = OtherAlgorithms(prev)

RECURSIVE NoEmptySectionIn(_)
\* no section below this one has neither attributes nor children
NoEmptySectionIn(section) ==
    \A child \in Range(section.secs) :
        /\ ~(child.attrs = <<>> /\ child.secs = <<>>)
        /\ NoEmptySectionIn(child)

\* C9: after a write that returned, no section at any depth has neither
\* attributes nor children.
C9_NoEmptySection == Succeeded => NoEmptySectionIn(config)

\* C9 happens: set_quorum_options deleted the options of the only quorum
\* section, which is gone after the call.
C9_Witness ==
    /\ last.op = "set_quorum_options"
    /\ last.outcome = "ok"
    /\ \E name \in DOMAIN last.options : last.options[name] = ""
    /\ Len(QuorumSections(prev)) = 1
    /\ QuorumSections(prev)[1].attrs # <<>>
    /\ QuorumSections(config) = <<>>

\* the number of quorum sections that have an attribute of that name
QuorumSectionsWith(cfg, name) ==
    Cardinality({ k \in 1..Len(QuorumSections(cfg)) :
                    HasAttribute(QuorumSections(cfg)[k], name) })

\* C10 as claimed: after a write that returned, at most one quorum section
\* has attributes of the tracked quorum options, named in the call or not.
C10_Claimed ==
    Succeeded
      => Cardinality({ k \in 1..Len(QuorumSections(config)) :
                         \E name \in QUORUM_OPTIONS :
                            HasAttribute(QuorumSections(config)[k], name) })
         <= 1

\* C10 as amended: after a set_quorum_options that returned, each option
\* named in the call is an attribute of at most one quorum section, and of
\* none but the last.
C10_NamedOptionsOnLastSectionOnly ==
    (last.op = "set_quorum_options" /\ last.outcome = "ok")
      => \A name \in DOMAIN last.options :
            \A k \in 1..(Len(QuorumSections(config)) - 1) :
               ~HasAttribute(QuorumSections(config)[k], name)

\* C10 happens: wait_for_all was an attribute of two quorum sections and
\* the call named it.
C10_Witness ==
    /\ last.op = "set_quorum_options"
    /\ last.outcome = "ok"
    /\ "wait_for_all" \in DOMAIN last.options
    /\ last.options["wait_for_all"] # ""
    /\ QuorumSectionsWith(prev, "wait_for_all") = 2
    /\ QuorumSectionsWith(config, "wait_for_all") = 1

-----------------------------------------------------------------------------
(* Properties of set_quorum_options *)

\* what a further set_quorum_options with the arguments of the last call
\* gives on the tree that call left
SetQuorumOptionsAgain == set_quorum_options(config, last.force, last.options)

\* C11: after a set_quorum_options that returned, the same call once more
\* returns and leaves the tree as it is: same sections, attributes and order.
C11_SetQuorumOptionsIdempotent ==
    (last.op = "set_quorum_options" /\ last.outcome = "ok")
      => /\ SetQuorumOptionsAgain.outcome = "ok"
         /\ SetQuorumOptionsAgain.config = config

\* the attributes of the section whose names are not in the given set
OtherAttributes(section, names) ==
    SelectSeq(section.attrs, LAMBDA a : a[1] \notin names)

\* per quorum section that has any: its attributes with names not in the set
QuorumFrame(cfg, names) ==
    SelectSeq([k \in 1..Len(QuorumSections(cfg)) |->
                  OtherAttributes(QuorumSections(cfg)[k], names)],
              LAMBDA attrs : attrs # <<>>)

\* the option is an attribute of the last quorum section, once, with the
\* value
OnLastQuorumSection(cfg, name, value) ==
    /\ QuorumSections(cfg) # <<>>
    /\ SelectSeq(LastQuorumSection(cfg).attrs, LAMBDA a : a[1] = name)
         = << <<name, value>> >>

\* what C12 says of the named options and of the other attributes
C12_OptionsApplied ==
    /\ \A name \in DOMAIN last.options :
          /\ \A k \in 1..(Len(QuorumSections(config)) - 1) :
                ~HasAttribute(QuorumSections(config)[k], name)
          /\ last.options[name] # ""
               => OnLastQuorumSection(config, name, last.options[name])
          /\ last.options[name] = ""
               => QuorumSectionsWith(config, name) = 0
    /\ QuorumFrame(config, DOMAIN last.options \cup {"two_node"})
         = QuorumFrame(prev, DOMAIN last.options \cup {"two_node"})

\* C12 as claimed: after a set_quorum_options that returned, each named
\* option is on no quorum section but the last, and on the last with its
\* value iff the value is not empty; the other attributes but two_node are
\* as they were; and the document has a quorum section when it had none.
C12_Claimed ==
    (last.op = "set_quorum_options" /\ last.outcome = "ok")
      => /\ C12_OptionsApplied
         /\ QuorumSections(prev) = <<>> => QuorumSections(config) # <<>>

\* C12 as amended: the same, but a document that had no quorum section has
\* one after the call only when the call leaves an attribute in it: an option
\* with a value, or two_node for the two node sections counted.
C12_QuorumSectionKeptWhenNotEmpty ==
    (last.op = "set_quorum_options" /\ last.outcome = "ok")
      => /\ C12_OptionsApplied
         /\ QuorumSections(prev) = <<>>
              => /\ Len(QuorumSections(config)) <= 1
                 /\ QuorumSections(config) # <<>>
                      <=> \/ \E name \in DOMAIN last.options :
                                last.options[name] # ""
                          \/ NodeCount(prev) = 2

\* C12 happens: a document without a quorum section gets one that holds
\* the options of the call.
C12_Witness ==
    /\ last.op = "set_quorum_options"
    /\ last.outcome = "ok"
    /\ QuorumSections(prev) = <<>>
    /\ NodeCount(prev) = 3
    /\ last.options = ("last_man_standing" :> "1")
                         @@ ("last_man_standing_window" :> "10")
    /\ QuorumSections(config)
         = << Quorum(<< <<"last_man_standing", "1">>,
                        <<"last_man_standing_window", "10">> >>, <<>>) >>

-----------------------------------------------------------------------------
(* Properties of the validation *)

\* what the grammar of the quorum options allows
QuorumOptionAllowed(name, value) ==
    /\ name \in {"auto_tie_breaker", "last_man_standing",
                 "last_man_standing_window", "wait_for_all"}
    /\ \/ value = ""
       \/ IF name = "last_man_standing_window"
          THEN isdigit(value)
          ELSE value \in {"0", "1"}

\* C13: without a force policy set_quorum_options returns iff every key is
\* one of the four quorum options and every value is empty, or a digit string
\* for last_man_standing_window, or "0" or "1" for the other three.
C13_QuorumOptionsAccepted ==
    (last.op = "set_quorum_options" /\ ~last.force)
      => (last.outcome = "ok"
            <=> \A name \in DOMAIN last.options :
                   QuorumOptionAllowed(name, last.options[name]))

\* C13 happens: an empty value and a digit string are accepted together.
C13_Witness ==
    /\ last.op = "set_quorum_options"
    /\ ~last.force
    /\ last.options = ("auto_tie_breaker" :> "")
                         @@ ("last_man_standing_window" :> "10")
    /\ last.outcome = "ok"

\* the ids of the nodes the document lists
NodeIdsOf(cfg) ==
    { AttributeValue(node, "nodeid") : node \in Range(NodeSections(cfg)) }
    \ {None}

\* what the grammar of the net model allows for an option that was given
NetOptionAllowed(cfg, name, value) ==
    \/ name = "host" /\ value # ""
    \/ /\ name \in {"algorithm", "connect_timeout", "force_ip_version",
                    "port", "tie_breaker"}
       /\ \/ value = ""
          \/ name = "algorithm" /\ value \in {"2nodelms", "ffsplit", "lms"}
          \/ name = "connect_timeout" /\ isdigit(value)
               /\ int(value) \in 1000..120000
          \/ name = "force_ip_version" /\ value \in {"0", "4", "6"}
          \/ name = "port" /\ isdigit(value) /\ int(value) \in 1..65535
          \/ name = "tie_breaker"
               /\ value \in {"lowest", "highest"} \cup NodeIdsOf(cfg)

\* what the grammar of the generic device options allows
GenericOptionAllowed(name, value) ==
    /\ name \in {"sync_timeout", "timeout"}
    /\ value = "" \/ isdigit(value)

\* C14: without a force policy, add_quorum_device on a document without a
\* device returns iff the model is net, host is given with a value, every
\* model option is one of the net options with an empty value or one that
\* passes its check, and every generic option is sync_timeout or timeout with
\* an empty value or a digit string.
C14_AddQuorumDeviceAccepted ==
    (last.op = "add_quorum_device" /\ ~last.force /\ ~DeviceDefined(prev))
      => (last.outcome = "ok"
            <=> /\ last.model = "net"
                /\ "host" \in DOMAIN last.model_options
                /\ \A name \in DOMAIN last.model_options :
                      NetOptionAllowed(prev, name, last.model_options[name])
                /\ \A name \in DOMAIN last.generic_options :
                      GenericOptionAllowed(name, last.generic_options[name]))

\* C14 happens: the largest connect_timeout is accepted.
C14_Witness ==
    /\ last.op = "add_quorum_device"
    /\ ~last.force
    /\ ~DeviceDefined(prev)
    /\ last.model = "net"
    /\ last.model_options = Host @@ ("connect_timeout" :> "120000")
    /\ last.outcome = "ok"
    /\ \E net \in Range(NetSections(config)) :
          AttributeValue(net, "connect_timeout") = "120000"

\* the last call was a device write that passed its precondition
DeviceWriteValidated ==
    /\ last.op \in {"add_quorum_device", "update_quorum_device"}
    /\ last.reports # <<>>

\* the problems the last call handed to the report processor
Problems == Range(Flatten(last.reports))

\* C15: add_quorum_device and update_quorum_device with a tie_breaker that
\* is neither lowest, highest nor the id of a node of the document fail,
\* with or without the force policy; a tie_breaker that is the id of a
\* node raises no problem.
C15_TieBreakerNotForceable ==
    (DeviceWriteValidated /\ "tie_breaker" \in DOMAIN last.model_options)
      => /\ last.model_options["tie_breaker"]
               \notin {"", "lowest", "highest"} \cup NodeIdsOf(prev)
              => last.outcome = "LibraryError"
         /\ last.model_options["tie_breaker"] \in NodeIdsOf(prev)
              => \A problem \in Problems : problem.option # "tie_breaker"

\* a problem with the value of an option whose name is allowed
ValueProblem(problem) ==
    problem.code = "INVALID_OPTION_VALUE" /\ problem.option # "model"

\* C16: every problem with the value of an allowed option is forceable, in
\* set_quorum_options as in the device writes: a call with the force policy
\* whose problems are all of that kind is not stopped by the report
\* processor.
C16_ValueProblemsForceable ==
    (last.op \in Writes /\ last.reports # <<>>)
      => /\ \A problem \in Problems :
               ValueProblem(problem) => problem.forceable
         /\ (last.force /\ \A problem \in Problems : ValueProblem(problem))
              => last.outcome # "LibraryError"

\* the model the device options of the last call are checked against: the
\* model given to add_quorum_device, the last model attribute of the device
\* sections for update_quorum_device
ModelOfCall ==
    IF last.op = "add_quorum_device" THEN last.model
    ELSE LET models == SelectSeq(
                          Flatten([k \in 1..Len(DeviceSections(prev)) |->
                                      DeviceSections(prev)[k].attrs]),
                          LAMBDA a : a[1] = "model")
         IN  IF models = <<>> THEN None ELSE models[Len(models)][2]

UnknownQuorumOption ==
    /\ last.op = "set_quorum_options"
    /\ \E name \in DOMAIN last.options :
          name \notin {"auto_tie_breaker", "last_man_standing",
                       "last_man_standing_window", "wait_for_all"}

UnknownModelOption ==
    /\ DeviceWriteValidated
    /\ \E name \in DOMAIN last.model_options :
          name \notin {"host", "algorithm", "connect_timeout",
                       "force_ip_version", "port", "tie_breaker"}

UnknownGenericOption ==
    /\ DeviceWriteValidated
    /\ \E name \in DOMAIN last.generic_options :
          name \notin {"sync_timeout", "timeout"}

\* host absent on add_quorum_device, or given as the empty string
HostMissing ==
    /\ DeviceWriteValidated
    /\ \/ last.op = "add_quorum_device" /\ "host" \notin DOMAIN last.model_options
       \/ "host" \in DOMAIN last.model_options /\ last.model_options["host"] = ""

UnsupportedModel ==
    last.op = "add_quorum_device" /\ last.reports # <<>> /\ last.model # "net"

Rejected == last.outcome = "LibraryError" /\ config = prev

\* C17 as claimed: a write with an unknown option name, a missing or empty
\* host or an unsupported model is rejected, with or without the force
\* policy, and leaves the tree as it was.
C17_Claimed ==
    (UnknownQuorumOption \/ UnknownModelOption \/ UnknownGenericOption
     \/ HostMissing \/ UnsupportedModel)
      => Rejected

\* C17 as amended: rejected with or without the force policy are an unknown
\* quorum option, the generic option model, and a missing or empty host
\* when the options are checked against the net model; an unsupported model
\* and an unknown model or generic option raise forceable problems.
C17_NonForceableProblems ==
    /\ UnknownQuorumOption => Rejected
    /\ (DeviceWriteValidated /\ "model" \in DOMAIN last.generic_options)
         => Rejected
    /\ (HostMissing /\ ModelOfCall = "net") => Rejected
    /\ DeviceWriteValidated
         => \A problem \in Problems :
               \/ problem.code = "INVALID_OPTION" /\ problem.option # "model"
               \/ problem.code = "INVALID_OPTION_VALUE"
                    /\ problem.option = "model"
               => problem.forceable
    /\ UnknownModelOption /\ ModelOfCall = "net"
         => \E problem \in Problems : problem.code = "INVALID_OPTION"
    /\ UnknownGenericOption
         => \E problem \in Problems : problem.code = "INVALID_OPTION"
    /\ UnsupportedModel
         => \E problem \in Problems :
               problem.code = "INVALID_OPTION_VALUE" /\ problem.option = "model"
    /\ (last.force /\ \A problem \in Problems : problem.forceable)
         => last.outcome # "LibraryError"

\* C17 happens: update_quorum_device of a net device with an empty host is
\* rejected under the force policy.
C17_Witness ==
    /\ last.op = "update_quorum_device"
    /\ last.force
    /\ last.model_options = ("host" :> "")
    /\ ModelOfCall = "net"
    /\ last.outcome = "LibraryError"
    /\ config = prev

\* the last call handed the report processor a problem about the option
Reported(option) == \E problem \in Problems : problem.option = option

\* the inputs of the last call that its grammar does not allow
OffendingInputs ==
    IF last.op = "set_quorum_options"
    THEN { name \in DOMAIN last.options :
             ~QuorumOptionAllowed(name, last.options[name]) }
    ELSE (IF UnsupportedModel THEN {"model"} ELSE {})
         \cup (IF ModelOfCall = "net"
               THEN { name \in DOMAIN last.model_options :
                        ~NetOptionAllowed(prev, name, last.model_options[name]) }
                    \cup (IF HostMissing THEN {"host"} ELSE {})
               ELSE {})
         \cup { name \in DOMAIN last.generic_options :
                  ~GenericOptionAllowed(name, last.generic_options[name]) }

\* C18: set_quorum_options, add_quorum_device and update_quorum_device, once
\* past the precondition, hand the report processor one list, once, before
\* the tree is changed, and the list has a problem for every offending input
\* of the call.
C18_AllProblemsInOneList ==
    (last.op \in {"set_quorum_options", "add_quorum_device",
                  "update_quorum_device"}
     /\ last.outcome \notin {"QDEVICE_ALREADY_DEFINED", "QDEVICE_NOT_DEFINED"})
      => /\ Len(last.reports) = 1
         /\ \A option \in OffendingInputs : Reported(option)
         /\ last.outcome = "LibraryError" => config = prev

\* C18 happens: two offending quorum options, two problems in the one list.
C18_Witness ==
    /\ last.op = "set_quorum_options"
    /\ last.options = ("auto_tie_breaker" :> "2")
                         @@ ("last_man_standing_window" :> "x")
    /\ Len(last.reports) = 1
    /\ Len(last.reports[1]) = 2
    /\ Reported("auto_tie_breaker")
    /\ Reported("last_man_standing_window")
    /\ last.outcome = "LibraryError"

-----------------------------------------------------------------------------
(* Properties of add_quorum_device *)

AddReturned == last.op = "add_quorum_device" /\ last.outcome = "ok"

\* C19: after an add_quorum_device that returned, no quorum section, last or
\* older duplicate, has an attribute allow_downscale, auto_tie_breaker,
\* last_man_standing, last_man_standing_window or two_node.
C19_IncompatibleOptionsCleared ==
    AddReturned
      => \A quorum \in Range(QuorumSections(config)) :
            \A name \in {"allow_downscale", "auto_tie_breaker",
                         "last_man_standing", "last_man_standing_window",
                         "two_node"} :
               ~HasAttribute(quorum, name)

\* C19 happens: the options were on an older duplicate quorum section.
C19_Witness ==
    /\ AddReturned
    /\ Len(QuorumSections(prev)) = 2
    /\ HasAttribute(QuorumSections(prev)[1], "allow_downscale")
    /\ HasAttribute(QuorumSections(prev)[1], "two_node")
    /\ QuorumSectionsWith(config, "allow_downscale") = 0
    /\ QuorumSectionsWith(config, "two_node") = 0

\* the options with a value, as the attributes __set_section_options writes
\* to a new section: sorted by name
WrittenAttributes(options) ==
    LET names == SelectSeq(SortedNames,
                     LAMBDA n : n \in DOMAIN options /\ options[n] # "")
    IN  [k \in 1..Len(names) |-> <<names[k], options[names[k]]>>]

\* the device section made of the arguments of the last call, with the given
\* model options in its model section
DeviceOf(model_options) ==
    Sec("device",
        WrittenAttributes(last.generic_options) \o << <<"model", last.model>> >>,
        IF WrittenAttributes(model_options) = <<>> THEN <<>>
        ELSE << Sec(last.model, WrittenAttributes(model_options), <<>>) >>)

\* the model options of the last call with the algorithm of a net device as
\* the re-derivation leaves it for the node sections it counts
WithAlgorithmCorrected(model_options) ==
    IF last.model = "net" /\ "algorithm" \in DOMAIN model_options
    THEN [model_options EXCEPT !["algorithm"] =
            IF @ = "lms" /\ NodeCount(prev) = 2 THEN "2nodelms"
            ELSE IF @ = "2nodelms" /\ NodeCount(prev) # 2 THEN "lms"
            ELSE @]
    ELSE model_options

\* the only device section of the document is the given one, on the last
\* quorum section
OnlyDevice(cfg, device) ==
    /\ DeviceSections(cfg) = << device >>
    /\ Children(LastQuorumSection(cfg), "device") = << device >>

\* C20 as claimed: after an add_quorum_device that returned the document has
\* one device section, on the last quorum section, with the generic options
\* that have a value, the model attribute and, when a model option has a
\* value, one child named after the model with the model options as given.
C20_Claimed ==
    AddReturned => OnlyDevice(config, DeviceOf(last.model_options))

\* C20 as amended: the same, with the algorithm of a net device stored as
\* 2nodelms for lms when two node sections are counted, and as lms for
\* 2nodelms when another number is.
C20_OneNewDevice ==
    AddReturned
      => OnlyDevice(config, DeviceOf(WithAlgorithmCorrected(last.model_options)))

\* C20 happens: a device section without a model was there before the call
\* and the new device is the only one after it.
C20_Witness ==
    /\ AddReturned
    /\ DeviceSections(prev) = << Device(<< <<"timeout", "5">> >>, <<>>) >>
    /\ last.model_options = Host @@ ("port" :> "65535")
    /\ DeviceSections(config)
         = << Device(<< <<"model", "net">> >>,
                     << NetSection(<< <<"host", "qnetd">>,
                                      <<"port", "65535">> >>) >>) >>

-----------------------------------------------------------------------------
(* Properties of update_quorum_device *)

UpdateReturned == last.op = "update_quorum_device" /\ last.outcome = "ok"

\* the children named after the model of all device sections, in document
\* order
ModelSections(cfg, model) ==
    Flatten([k \in 1..Len(DeviceSections(cfg)) |->
                Children(DeviceSections(cfg)[k], model)])

\* the value update_quorum_device leaves for a model option: as given, but
\* the algorithm of a net device as the re-derivation corrects it for the
\* node sections it counts
StoredModelOption(name) ==
    LET value == last.model_options[name]
    IN  IF ModelOfCall = "net" /\ name = "algorithm"
        THEN IF value = "lms" /\ NodeCount(prev) = 2 THEN "2nodelms"
             ELSE IF value = "2nodelms" /\ NodeCount(prev) # 2 THEN "lms"
             ELSE value
        ELSE value

\* the attribute is on none of the sections but the last, and on the last,
\* once and with the value, iff the value is not empty
OnLastOnly(sections, name, value) ==
    /\ \A k \in 1..(Len(sections) - 1) : ~HasAttribute(sections[k], name)
    /\ value # ""
         => /\ sections # <<>>
            /\ SelectSeq(sections[Len(sections)].attrs, LAMBDA a : a[1] = name)
                 = << <<name, value>> >>
    /\ value = "" => \A k \in 1..Len(sections) : ~HasAttribute(sections[k], name)

\* C21: after an update_quorum_device that returned, on a document that had
\* a section named after the current model, each generic option is on no
\* device section but the last, and on the last with its value iff the value
\* is not empty; each model option likewise on the sections named after the
\* model, the algorithm as corrected for the node count; and a call without
\* host raises no problem about host.
C21_UpdateAppliesToLast ==
    /\ (UpdateReturned /\ ModelSections(prev, ModelOfCall) # <<>>)
         => /\ \A name \in DOMAIN last.generic_options :
                  OnLastOnly(DeviceSections(config), name,
                             last.generic_options[name])
            /\ \A name \in DOMAIN last.model_options :
                  OnLastOnly(ModelSections(config, ModelOfCall), name,
                             StoredModelOption(name))
    /\ (last.op = "update_quorum_device"
        /\ "host" \notin DOMAIN last.model_options)
         => ~Reported("host")

\* C21 happens: three net sections, two with an algorithm; after the call
\* only the last has one, corrected for the two nodes.
C21_Witness ==
    /\ UpdateReturned
    /\ last.model_options = ("algorithm" :> "lms")
    /\ NodeCount(prev) = 2
    /\ Len(ModelSections(prev, "net")) = 3
    /\ HasAttribute(ModelSections(prev, "net")[1], "algorithm")
    /\ Len(ModelSections(config, "net")) = 3
    /\ ~HasAttribute(ModelSections(config, "net")[1], "algorithm")
    /\ AttributeValue(ModelSections(config, "net")[3], "algorithm") = "2nodelms"

-----------------------------------------------------------------------------
(* Properties of the reads *)

\* a device section of the document has a model attribute with a value
DeviceWithModelValue(cfg) ==
    \E device \in Range(DeviceSections(cfg)) :
       AttributeValue(device, "model") \notin {None, ""}

\* C22: has_quorum_device() is true iff a device section of a quorum section
\* has a model attribute with a value; a device section without the
\* attribute, or with an empty value for it, does not count.
C22_DeviceNeedsModelValue ==
    has_quorum_device(config) <=> DeviceWithModelValue(config)

\* the value of the last attribute of that name in the quorum sections, in
\* document order
LastQuorumValue(cfg, name) ==
    LET found == SelectSeq(
                    Flatten([k \in 1..Len(QuorumSections(cfg)) |->
                                QuorumSections(cfg)[k].attrs]),
                    LAMBDA a : a[1] = name)
    IN  found[Len(found)][2]

\* the allowed quorum options the quorum sections have, each with the value
\* of its last occurrence
QuorumOptionsOf(cfg) ==
    [name \in { n \in {"auto_tie_breaker", "last_man_standing",
                       "last_man_standing_window", "wait_for_all"} :
                  QuorumSectionsWith(cfg, n) > 0 }
       |-> LastQuorumValue(cfg, name)]

\* C23: get_quorum_options() returns the allowed quorum options that the
\* quorum sections have, each with the value of its last occurrence; after a
\* set_quorum_options that returned it has the given value for each name
\* given with a value, does not have the names given with the empty string,
\* and has or lacks every other allowed name as before the call.
C23_GetQuorumOptions ==
    /\ get_quorum_options(config) = QuorumOptionsOf(config)
    /\ (last.op = "set_quorum_options" /\ last.outcome = "ok")
         => /\ \A name \in DOMAIN last.options :
                  IF last.options[name] = ""
                  THEN name \notin DOMAIN get_quorum_options(config)
                  ELSE /\ name \in DOMAIN get_quorum_options(config)
                       /\ get_quorum_options(config)[name] = last.options[name]
            /\ \A name \in QUORUM_OPTIONS \ DOMAIN last.options :
                  IF name \in DOMAIN get_quorum_options(prev)
                  THEN /\ name \in DOMAIN get_quorum_options(config)
                       /\ get_quorum_options(config)[name]
                            = get_quorum_options(prev)[name]
                  ELSE name \notin DOMAIN get_quorum_options(config)

\* C23 happens: wait_for_all, on two quorum sections, is deleted and the
\* other option is read as before.
C23_Witness ==
    /\ last.op = "set_quorum_options"
    /\ last.outcome = "ok"
    /\ last.options = ("wait_for_all" :> "")
    /\ get_quorum_options(prev)
         = ("last_man_standing" :> "1") @@ ("wait_for_all" :> "0")
    /\ QuorumSectionsWith(prev, "wait_for_all") = 2
    /\ get_quorum_options(config) = ("last_man_standing" :> "1")

\* the write of a call, made on a tree
WriteOn(cfg, call) ==
    IF call.op = "set_quorum_options"
    THEN set_quorum_options(cfg, call.force, call.options)
    ELSE IF call.op = "add_quorum_device"
    THEN add_quorum_device(cfg, call.force, call.model, call.model_options,
                           call.generic_options)
    ELSE IF call.op = "update_quorum_device"
    THEN update_quorum_device(cfg, call.force, call.model_options,
                              call.generic_options)
    ELSE remove_quorum_device(cfg)

\* a read returns and leaves the tree as it was
ReadChangesNothing ==
    last'.op \in Reads => last'.outcome = "ok" /\ config' = config

\* a write made right after a read ends as the same write made in place of
\* the read: prev is the tree the read found
WriteAfterReadAsWithoutRead ==
    (last.op \in Reads /\ last'.op \in Writes)
      => LET without == WriteOn(prev, last')
         IN  /\ config' = without.config
             /\ last'.outcome = without.outcome
             /\ last'.reports = without.reports

\* C24: get_nodes, get_quorum_options, has_quorum_device and
\* get_quorum_device_settings return on every document and leave the tree as
\* it was, and a write made after a read, between writes or before the first,
\* gives the tree, the outcome and the reports it gives without the read.
C24_ReadsLeaveTreeUnchanged ==
    [][ReadChangesNothing /\ WriteAfterReadAsWithoutRead]_vars

\* C24 happens: get_quorum_device_settings between an add_quorum_device and
\* an update_quorum_device that changes the device.
C24_Witness ==
    /\ history = <<"add_quorum_device", "get_quorum_device_settings",
                   "update_quorum_device">>
    /\ last.outcome = "ok"
    /\ DeviceDefined(prev)
    /\ get_quorum_device_settings(config) # get_quorum_device_settings(prev)

-----------------------------------------------------------------------------
(* Properties of from_string *)

FromStringCalled == last.op = "from_string" /\ history = <<"from_string">>

\* the number of sections open after the first n lines of the text
RECURSIVE OpenAfter(_, _)
OpenAfter(text, n) ==
    IF n = 0 THEN 0
    ELSE OpenAfter(text, n - 1)
         + (IF text[n].kind = "open" THEN 1
            ELSE IF text[n].kind = "close" THEN -1 ELSE 0)

\* the lines the parser cannot take: a malformed line, or a closing brace
\* with no section open
Faults(text) ==
    { n \in 1..Len(text) :
        \/ text[n].kind = "malformed"
        \/ text[n].kind = "close" /\ OpenAfter(text, n - 1) = 0 }

FirstFault(text) == CHOOSE n \in Faults(text) : \A m \in Faults(text) : n <= m

RECURSIVE SectionsIn(_)
\* the number of sections below a section, at any depth
SectionsIn(section) ==
    IF section.secs = <<>> THEN 0
    ELSE 1 + SectionsIn(Head(section.secs))
           + SectionsIn([section EXCEPT !.secs = Tail(@)])

RECURSIVE AttributesIn(_)
\* the number of attributes of a section and of the sections below it
AttributesIn(section) ==
    IF section.secs = <<>> THEN Len(section.attrs)
    ELSE AttributesIn(Head(section.secs))
         + AttributesIn([section EXCEPT !.secs = Tail(@)])

LinesOfKind(text, kind) ==
    Cardinality({ n \in 1..Len(text) : text[n].kind = kind })

\* C25: from_string gives a facade over the whole tree of the text, or fails
\* with one of three errors and gives no facade: missing closing brace when
\* the text ends with a section open, unexpected closing brace for a closing
\* brace with no section open, and the generic parse error for any other
\* failure of the parser, never for those two.
C25_ParseErrorKinds ==
    FromStringCalled
      => IF Faults(last.text) # {}
         THEN /\ config = NoTree
              /\ last.outcome =
                   IF last.text[FirstFault(last.text)].kind = "close"
                   THEN "PARSE_ERROR_COROSYNC_CONF_UNEXPECTED_CLOSING_BRACE"
                   ELSE "PARSE_ERROR_COROSYNC_CONF"
         ELSE IF OpenAfter(last.text, Len(last.text)) > 0
         THEN /\ config = NoTree
              /\ last.outcome = "PARSE_ERROR_COROSYNC_CONF_MISSING_CLOSING_BRACE"
         ELSE /\ last.outcome = "ok"
              /\ config.name = ""
              /\ SectionsIn(config) = LinesOfKind(last.text, "open")
              /\ AttributesIn(config) = LinesOfKind(last.text, "attribute")

\* C25 happens: a text that ends with a section open.
C25_Witness ==
    /\ FromStringCalled
    /\ last.text = << OpenLine("quorum"), AttributeLine("two_node", "1") >>
    /\ last.outcome = "PARSE_ERROR_COROSYNC_CONF_MISSING_CLOSING_BRACE"
    /\ config = NoTree

-----------------------------------------------------------------------------
(* Atomicity of update_quorum_device *)

\* C26: on a document with a configured device, update_quorum_device either
\* completes all its steps or fails with the tree unchanged; it never stops
\* with the generic options applied and the model options not applied.
C26_UpdateAllOrNothing ==
    (last.op = "update_quorum_device" /\ has_quorum_device(prev))
      => (last.outcome = "ok" \/ config = prev)

-----------------------------------------------------------------------------
(* The node list under the writes *)

\* C27: a write that returned leaves the node list as it was: get_nodes gives
\* the same sequence after the call as before it, so the number of nodes the
\* call derived two_node from is the number of nodes of the document it left.
C27_WritesKeepNodeList ==
    Succeeded
      => /\ get_nodes(config) = get_nodes(prev)
         /\ NodeCount(config) = NodeCount(prev)

-----------------------------------------------------------------------------
(* The quorum options a device excludes *)

\* the writes so far all returned, the first was add_quorum_device and none
\* was remove_quorum_device
DeviceAddedAndKept ==
    /\ history # <<>>
    /\ history[1] = "add_quorum_device"
    /\ "remove_quorum_device" \notin Range(history)
    /\ last.outcome = "ok"

\* C28: after writes that all returned, the first add_quorum_device and none
\* remove_quorum_device, no quorum section has an attribute auto_tie_breaker,
\* last_man_standing or last_man_standing_window.
C28_IncompatibleOptionsStayAbsent ==
    DeviceAddedAndKept
      => \A quorum \in Range(QuorumSections(config)) :
            \A name \in {"auto_tie_breaker", "last_man_standing",
                         "last_man_standing_window"} :
               ~HasAttribute(quorum, name)

-----------------------------------------------------------------------------
(* Reading the device back after add_quorum_device *)

\* the options without those of empty value
WithoutEmpty(options) ==
    [name \in { n \in DOMAIN options : options[n] # "" } |-> options[name]]

\* C29: right after an add_quorum_device that returned,
\* get_quorum_device_settings gives the model of the call, its model options
\* without those of empty value, the algorithm of a net device rewritten
\* between lms and 2nodelms for the number of nodes, and its generic options
\* without those of empty value; nothing of the device sections the document
\* had before the call is in it.
C29_SettingsReadBackAfterAdd ==
    AddReturned
      => get_quorum_device_settings(config) =
            [model |-> last.model,
             model_options |->
                 WithoutEmpty(WithAlgorithmCorrected(last.model_options)),
             generic_options |-> WithoutEmpty(last.generic_options)]

\* C29 happens: a device is added to a document of two nodes that had a
\* device section with a timeout and no model, with an algorithm that is
\* rewritten and options of empty value, and the settings read back are those
\* of the call.
C29_Witness ==
    /\ AddReturned
    /\ NodeCount(prev) = 2
    /\ \E device \in Range(DeviceSections(prev)) : HasAttribute(device, "timeout")
    /\ last.model = "net"
    /\ last.model_options = Host @@ ("algorithm" :> "lms") @@ ("port" :> "")
    /\ last.generic_options = ("sync_timeout" :> "5") @@ ("timeout" :> "")
    /\ get_quorum_device_settings(config) =
          [model |-> "net",
           model_options |-> Host @@ ("algorithm" :> "2nodelms"),
           generic_options |-> "sync_timeout" :> "5"]

====
